---------------------------- MODULE Spec2Model ----------------------------
(* A model of pll: tokens read from standard input are grouped into       *)
(* argument lists by an ArgBuilder (Append or Template) and run by a       *)
(* bounded process pool.  The module holds three state machines over one   *)
(* set of variables:                                                       *)
(*   BuilderSpec  the ArgBuilder implementations of src/args.rs and of     *)
(*                src/main.rs, driven by an arbitrary caller;              *)
(*   TokSpec      SplitMany::next and clean_arg as main() drives them;     *)
(*   PoolSpec     ProcPool as main() drives it, with the children writing  *)
(*                their output and exiting concurrently; PoolFairSpec is   *)
(*                its fair version for children whose output fits the pipe.*)
(* Strings are sequences of one-character strings, bytes are integers.     *)
EXTENDS Integers, Sequences, FiniteSets, TLC

VARIABLES
    \* ---- BuilderSpec
    bimpl,        \* "args" (src/args.rs) or "main" (src/main.rs)
    template,     \* the Vec<String> the builder was made from
    builder,      \* the ArgBuilderType value
    accepted,     \* history: the tokens push_arg took without panicking
    ret,          \* history: what each push_arg returned, in order
    lst,          \* history: <<l>> when arg_list() returned l since the last push
    bpc,          \* "ready", or "panicked" once an assert! failed
    \* ---- TokSpec
    stream,       \* bytes of standard input not yet handed out by fill_buf
    input,        \* history: the whole input
    delims,       \* the delimiter bytes
    next,         \* SplitMany.next
    handed,       \* history: the tokens main() passed to pool.push_arg
    tpc,          \* "iter", "done", "read_failed", "decode_failed"
    \* ---- PoolSpec
    cfg,          \* the command line (max_parallelism, is_template, ...) and out_len
    tokens,       \* the cleaned tokens the main loop will see, in order
    pos,          \* how many of them the loop has consumed
    proc_builder, \* ProcPool.proc_builder
    procs,        \* ProcPool.procs: a child is [id, st, out, left, buf, rank]
    nspawned,     \* history: number of children spawned so far
    spawned,      \* history: the argument list of each spawn, in order
    spawn_pos,    \* history: pos at each spawn
    stdout,       \* history: ids of the children whose captured output was printed
    pc            \* "read", "wait_for_room", "wait_all", "done", "panicked"

bvars == <<bimpl, template, builder, accepted, ret, lst, bpc>>
tvars == <<stream, input, delims, next, handed, tpc>>
pvars == <<cfg, tokens, pos, proc_builder, procs, nspawned, spawned, spawn_pos, stdout, pc>>
vars == <<bvars, tvars, pvars>>

------------------------------------------------------------------------------
(* Bounds *)

MaxPushes == 3        \* push_arg calls made on one stand-alone builder
MaxArgs == 3          \* largest max_args / num_args tried
MaxElemLen == 3       \* length of the enumerated template elements
MaxPos == 1           \* literal elements put in front of an enumerated one
MaxTemplLen == 3      \* elements of a template over the curated elements
MaxInputLen == 4      \* bytes of standard input
MaxTokens == 4        \* tokens the pool's main loop sees
MaxPar == 2           \* largest max_parallelism tried
PipeCap == 1          \* units of output the pipe between a child and the pool holds
MaxOut == 2           \* most units of output a child writes

------------------------------------------------------------------------------
(* Strings *)

RECURSIVE SeqsUpTo(_, _)
SeqsUpTo(S, n) ==
    IF n = 0 THEN {<< >>}
    ELSE LET shorter == SeqsUpTo(S, n - 1)
         IN  shorter \cup {Append(s, x) : s \in {t \in shorter : Len(t) = n - 1}, x \in S}

Range(s) == {s[i] : i \in DOMAIN s}

Min(S) == CHOOSE x \in S : \A y \in S : x <= y

\* str::find of a one-character pattern: the 0-based offset of its first
\* occurrence, None as -1.
Find(val, ch) ==
    IF ch \in Range(val) THEN Min({i \in DOMAIN val : val[i] = ch}) - 1 ELSE -1

Digits == {"0", "1", "2", "3", "4", "5", "6", "7", "8", "9"}

DigitVal(c) ==
    CASE c = "0" -> 0 [] c = "1" -> 1 [] c = "2" -> 2 [] c = "3" -> 3 [] c = "4" -> 4
      [] c = "5" -> 5 [] c = "6" -> 6 [] c = "7" -> 7 [] c = "8" -> 8 [] c = "9" -> 9

RECURSIVE DecimalValue(_)
DecimalValue(s) ==
    IF s = << >> THEN 0
    ELSE 10 * DecimalValue(SubSeq(s, 1, Len(s) - 1)) + DigitVal(s[Len(s)])

\* str::parse::<usize>: an optional '+', then one or more decimal digits;
\* anything else (the empty string, a lone sign, '-', any other character) is
\* Err, given as -1.  The strings of this model are too short to overflow usize.
ParseUsize(s) ==
    LET body == IF s # << >> /\ s[1] = "+" THEN Tail(s) ELSE s
    IN  IF body # << >> /\ Range(body) \subseteq Digits THEN DecimalValue(body) ELSE -1

------------------------------------------------------------------------------
(* src/args.rs: AppendArgs *)

Args_AppendArgs(initial_args, max_args, min_args) ==
    [kind |-> "Append", initial_args |-> initial_args, args |-> << >>,
     max_args |-> max_args, min_args |-> min_args]

Args_Append_viable_Strict(self) == Len(self.args) > self.min_args

Args_Append_viable(self) == Len(self.args) >= self.min_args

Args_Append_push_arg_Prepend(self, arg) ==
    [ok |-> Len(self.args) <= self.max_args,
     self |-> [self EXCEPT !.args = <<arg>> \o @],
     ret |-> Len(self.args) + 1 = self.max_args]

\* ok is the assert!; self and ret are meaningful only when ok.
Args_Append_push_arg(self, arg) ==
    [ok |-> Len(self.args) <= self.max_args,
     self |-> [self EXCEPT !.args = Append(@, arg)],
     ret |-> Len(self.args) + 1 = self.max_args]

Args_Append_arg_list(self) == self.initial_args \o self.args

(* src/main.rs: AppendArgs *)

Main_AppendArgs(initial_args, max_args) ==
    [kind |-> "Append", initial_args |-> initial_args, args |-> << >>,
     max_args |-> max_args]

Main_Append_finalized(self) == Len(self.args) >= self.max_args

Main_Append_push_arg_Prepend(self, arg) ==
    LET pushed == [self EXCEPT !.args = <<arg>> \o @]
    IN  [ok |-> ~Main_Append_finalized(self),
         self |-> pushed,
         ret |-> Main_Append_finalized(pushed)]

Main_Append_push_arg(self, arg) ==
    LET pushed == [self EXCEPT !.args = Append(@, arg)]
    IN  [ok |-> ~Main_Append_finalized(self),
         self |-> pushed,
         ret |-> Main_Append_finalized(pushed)]

Main_Append_arg_list(self) == self.initial_args \o self.args

------------------------------------------------------------------------------
(* TemplateArgs, both files *)

IndexedPlaceHolder(i) == [tag |-> "IndexedPlaceHolder", idx |-> i, val |-> << >>]

Value(v) == [tag |-> "Value", idx |-> 0, val |-> v]

BracedIndex_FallbackZero(idx, val, i, j) ==
    IF j < i \/ j = i + 1 THEN 0
    ELSE IF ParseUsize(SubSeq(val, i + 2, j)) >= 0 THEN ParseUsize(SubSeq(val, i + 2, j))
    ELSE 0

\* The (Some(i), Some(j)) arm, the same in both files; idx is 0-based.
BracedIndex(idx, val, i, j) ==
    IF j < i \/ j = i + 1 THEN idx
    ELSE IF ParseUsize(SubSeq(val, i + 2, j)) >= 0 THEN ParseUsize(SubSeq(val, i + 2, j))
    ELSE idx

Args_TemplateArg(idx, val) ==
    LET i == Find(val, "{")
        j == Find(val, "}")
    IN  IF i < 0 /\ j < 0 THEN Value(val)
        ELSE IF i < 0 \/ j < 0 THEN IndexedPlaceHolder(idx)
        ELSE IndexedPlaceHolder(BracedIndex(idx, val, i, j))

Main_TemplateArg(idx, val) ==
    LET i == Find(val, "{")
        j == Find(val, "}")
    IN  IF i < 0 \/ j < 0 THEN IndexedPlaceHolder(idx)
        ELSE IndexedPlaceHolder(BracedIndex(idx, val, i, j))

CountValues(arg_list) == Cardinality({i \in DOMAIN arg_list : arg_list[i].tag = "Value"})

Args_TemplateArgs_new(templ) ==
    LET arg_list == [p \in 1..Len(templ) |-> Args_TemplateArg(p - 1, templ[p])]
    IN  [kind |-> "Template", arg_list |-> arg_list, idx |-> 0,
         finalized_count |-> CountValues(arg_list)]

Main_TemplateArgs_new(templ) ==
    LET arg_list == [p \in 1..Len(templ) |-> Main_TemplateArg(p - 1, templ[p])]
    IN  [kind |-> "Template", arg_list |-> arg_list, idx |-> 0,
         finalized_count |-> CountValues(arg_list)]

\* viable() of src/args.rs and finalized() of src/main.rs are the same test.
Template_finalized(self) == self.finalized_count = Len(self.arg_list)

Template_push_arg_FirstSlotOnly(self, arg) ==
    LET all == {i \in DOMAIN self.arg_list :
                   /\ self.arg_list[i].tag = "IndexedPlaceHolder"
                   /\ self.arg_list[i].idx = self.idx}
        hit == IF all = {} THEN {} ELSE {Min(all)}
        pushed == [self EXCEPT
                     !.arg_list = [i \in DOMAIN @ |-> IF i \in hit THEN Value(arg) ELSE @[i]],
                     !.finalized_count = @ + Cardinality(hit),
                     !.idx = @ + 1]
    IN  [ok |-> ~Template_finalized(self),
         self |-> pushed,
         ret |-> Template_finalized(pushed)]

Template_push_arg_CountOnce(self, arg) ==
    LET hit == {i \in DOMAIN self.arg_list :
                   /\ self.arg_list[i].tag = "IndexedPlaceHolder"
                   /\ self.arg_list[i].idx = self.idx}
        pushed == [self EXCEPT
                     !.arg_list = [i \in DOMAIN @ |-> IF i \in hit THEN Value(arg) ELSE @[i]],
                     !.finalized_count = @ + (IF hit = {} THEN 0 ELSE 1),
                     !.idx = @ + 1]
    IN  [ok |-> ~Template_finalized(self),
         self |-> pushed,
         ret |-> Template_finalized(pushed)]

Template_push_arg(self, arg) ==
    LET hit == {i \in DOMAIN self.arg_list :
                   /\ self.arg_list[i].tag = "IndexedPlaceHolder"
                   /\ self.arg_list[i].idx = self.idx}
        pushed == [self EXCEPT
                     !.arg_list = [i \in DOMAIN @ |-> IF i \in hit THEN Value(arg) ELSE @[i]],
                     !.finalized_count = @ + Cardinality(hit),
                     !.idx = @ + 1]
    IN  [ok |-> ~Template_finalized(self),
         self |-> pushed,
         ret |-> Template_finalized(pushed)]

RECURSIVE FilterValues(_)
FilterValues(arg_list) ==
    IF arg_list = << >> THEN << >>
    ELSE (IF Head(arg_list).tag = "Value" THEN <<Head(arg_list).val>> ELSE << >>)
         \o FilterValues(Tail(arg_list))

Template_arg_list(self) == FilterValues(self.arg_list)

------------------------------------------------------------------------------
(* ArgBuilderType dispatch and DynArgBuilderMaker::make *)

Args_push_arg(self, arg) ==
    IF self.kind = "Append" THEN Args_Append_push_arg(self, arg)
    ELSE Template_push_arg(self, arg)

Args_arg_list(self) ==
    IF self.kind = "Append" THEN Args_Append_arg_list(self) ELSE Template_arg_list(self)

Args_viable(self) ==
    IF self.kind = "Append" THEN Args_Append_viable(self) ELSE Template_finalized(self)

Args_make(maker) ==
    IF maker.is_template THEN Args_TemplateArgs_new(maker.initial_args)
    ELSE Args_AppendArgs(maker.initial_args, maker.max_args, maker.min_args)

Main_push_arg(self, arg) ==
    IF self.kind = "Append" THEN Main_Append_push_arg(self, arg)
    ELSE Template_push_arg(self, arg)

Main_arg_list(self) ==
    IF self.kind = "Append" THEN Main_Append_arg_list(self) ELSE Template_arg_list(self)

Main_finalized(self) ==
    IF self.kind = "Append" THEN Main_Append_finalized(self) ELSE Template_finalized(self)

Main_make(maker) ==
    IF maker.is_template THEN Main_TemplateArgs_new(maker.initial_args)
    ELSE Main_AppendArgs(maker.initial_args, maker.max_args)

------------------------------------------------------------------------------
(* BuilderSpec: one builder of either file, pushed and read by any caller *)

foo == <<"f", "o", "o">>
bar == <<"b", "a", "r">>
initial == <<"i", "n", "i", "t", "i", "a", "l">>
Elem_0 == <<"{", "0", "}">>
Elem_1 == <<"{", "1", "}">>
Elem_malformed == <<"a", "}", "{", "b">>

PushValues == {foo, bar}

CuratedElems == {initial, Elem_0, Elem_1, Elem_malformed}

Alphabet == {"{", "}", "0", "1", "+", "a"}

RECURSIVE Pad(_)
Pad(p) == IF p = 0 THEN << >> ELSE <<initial>> \o Pad(p - 1)

\* Short templates over the curated elements, and every string of up to
\* MaxElemLen characters of Alphabet at each position 0..MaxPos.
Templates ==
    SeqsUpTo(CuratedElems, MaxTemplLen)
    \cup {Pad(p) \o <<e>> : p \in 0..MaxPos, e \in SeqsUpTo(Alphabet, MaxElemLen)}

Makers ==
    [is_template : {TRUE}, initial_args : Templates, max_args : {1}, min_args : {1}]
    \cup {m \in [is_template : {FALSE}, initial_args : {<< >>, <<initial>>},
                 max_args : 0..MaxArgs, min_args : 0..MaxArgs] : m.min_args <= m.max_args}

Make(impl, maker) == IF impl = "args" THEN Args_make(maker) ELSE Main_make(maker)

PushArg(impl, self, arg) ==
    IF impl = "args" THEN Args_push_arg(self, arg) ELSE Main_push_arg(self, arg)

ArgList(impl, self) == IF impl = "args" THEN Args_arg_list(self) ELSE Main_arg_list(self)

TokIdle ==
    /\ stream = << >> /\ input = << >> /\ delims = {} /\ next = << >>
    /\ handed = << >> /\ tpc = "off"

PoolIdle ==
    /\ cfg = [max_parallelism |-> 1] /\ tokens = << >> /\ pos = 0
    /\ proc_builder = << >> /\ procs = << >> /\ nspawned = 0 /\ spawned = << >>
    /\ spawn_pos = << >> /\ stdout = << >> /\ pc = "off"

BuilderIdle ==
    /\ bimpl = "off" /\ template = << >> /\ builder = << >> /\ accepted = << >>
    /\ ret = << >> /\ lst = << >> /\ bpc = "off"

BuilderInit ==
    /\ bimpl \in {"args", "main"}
    /\ \E maker \in Makers :
          /\ template = maker.initial_args
          /\ builder = Make(bimpl, maker)
    /\ accepted = << >>
    /\ ret = << >>
    /\ lst = << >>
    /\ bpc = "ready"
    /\ TokIdle /\ PoolIdle

\* One push_arg call; a failed assert! panics and ends the run.
BuilderPush(arg) ==
    /\ bpc = "ready"
    /\ Len(ret) < MaxPushes
    /\ LET r == PushArg(bimpl, builder, arg)
       IN  IF r.ok
           THEN /\ builder' = r.self
                /\ accepted' = Append(accepted, arg)
                /\ ret' = Append(ret, r.ret)
                /\ lst' = << >>
                /\ bpc' = bpc
           ELSE /\ bpc' = "panicked"
                /\ UNCHANGED <<builder, accepted, ret, lst>>
    /\ UNCHANGED <<bimpl, template, tvars, pvars>>

\* One arg_list() call.
BuilderArgList ==
    /\ bpc = "ready"
    /\ lst = << >>
    /\ lst' = <<ArgList(bimpl, builder)>>
    /\ UNCHANGED <<bimpl, template, builder, accepted, ret, bpc, tvars, pvars>>

BuilderNext ==
    \/ \E arg \in PushValues : BuilderPush(arg)
    \/ BuilderArgList

BuilderSpec == BuilderInit /\ [][BuilderNext]_vars

------------------------------------------------------------------------------
(* Claims about the builders, checked under BuilderSpec *)

IsTemplate == bpc # "off" /\ builder.kind = "Template"
IsAppend == bpc # "off" /\ builder.kind = "Append"

NoBraces(e) == "{" \notin Range(e) /\ "}" \notin Range(e)

\* The text of a non-negative integer as the claims mean it: decimal digits,
\* with or without a leading plus sign.
IsNatText(s) ==
    \/ s # << >> /\ Range(s) \subseteq Digits
    \/ Len(s) >= 2 /\ s[1] = "+" /\ Range(Tail(s)) \subseteq Digits

\* An element that is exactly {k}.
IsPlainPlaceHolder(e) ==
    /\ Len(e) >= 3 /\ e[1] = "{" /\ e[Len(e)] = "}"
    /\ Range(SubSeq(e, 2, Len(e) - 1)) \subseteq Digits

PlainIndex(e) == DecimalValue(SubSeq(e, 2, Len(e) - 1))

\* C5: a brace-free template element is a literal, pre-filled at construction
\* and kept at its position; an element {k} is replaced by the k-th pushed
\* value; for ["initial", "{0}", "{1}"] the second push returns true and
\* arg_list() is ["initial", first value, second value].
C5_TemplateSubstitution ==
    IsTemplate =>
        /\ \A p \in DOMAIN template :
              NoBraces(template[p]) => builder.arg_list[p] = Value(template[p])
        /\ \A p \in DOMAIN template :
              (IsPlainPlaceHolder(template[p]) /\ Len(accepted) > PlainIndex(template[p]))
                 => builder.arg_list[p] = Value(accepted[PlainIndex(template[p]) + 1])
        /\ (template = <<initial, Elem_0, Elem_1>> /\ Len(ret) = 2)
              => /\ ret[2]
                 /\ ArgList(bimpl, builder) = <<initial, accepted[1], accepted[2]>>

\* C6: for an Append builder, arg_list() is initial_args followed by every
\* token accepted so far, in arrival order, before and after finalization, and
\* the builder still holds exactly those tokens once arg_list() has returned.
C6_AppendArgListRoundTrip ==
    IsAppend =>
        /\ builder.initial_args = template
        /\ builder.args = accepted
        /\ lst # << >> => lst[1] = template \o accepted

C6_Witness ==
    /\ IsAppend /\ lst # << >> /\ Len(accepted) = 2 /\ accepted[1] # accepted[2]
    /\ template # << >> /\ builder.max_args = 2

\* The elements C9 calls malformed.
Malformed(e) ==
    LET i == Find(e, "{")
        j == Find(e, "}")
    IN  \/ (i >= 0) # (j >= 0)
        \/ /\ i >= 0 /\ j >= 0
           /\ \/ j < i
              \/ j = i + 1
              \/ ~IsNatText(SubSeq(e, i + 2, j))

\* C9: a malformed template element at position p is a placeholder for input
\* index p: it is a placeholder until the p-th value (0-based) arrives and holds
\* that value afterwards; ["a}{b"] is one placeholder for index 0 and one push
\* finalizes it.
C9_MalformedFallback ==
    IsTemplate =>
        /\ \A p \in DOMAIN template :
              Malformed(template[p]) =>
                 builder.arg_list[p] =
                    IF Len(accepted) >= p THEN Value(accepted[p])
                    ELSE IndexedPlaceHolder(p - 1)
        /\ template = <<Elem_malformed>> =>
              /\ accepted = << >> => builder.arg_list = <<IndexedPlaceHolder(0)>>
              /\ Len(ret) >= 1 => ret[1] /\ Template_finalized(builder)

C9_Witness ==
    /\ IsTemplate /\ Len(template) = 2 /\ Malformed(template[2])
    /\ "{" \in Range(template[2]) /\ "}" \in Range(template[2])
    /\ Len(accepted) = 2 /\ builder.arg_list[2] = Value(accepted[2])

C12_AppendSizeInvariant ==
    IsAppend =>
        /\ Len(builder.args) <= builder.max_args
        /\ builder.args = accepted

\* The slots a push made at index n fills.
SlotsFor(b, n) ==
    {i \in DOMAIN b.arg_list :
        b.arg_list[i].tag = "IndexedPlaceHolder" /\ b.arg_list[i].idx = n}

Last(s) == s[Len(s)]

\* C13: a push_arg(value) on a Template builder whose next_input_index is n
\* turns exactly the placeholder slots referencing n into Literal(value), adds
\* their number to filled_count, adds one to next_input_index whether or not a
\* slot matched, and returns true iff filled_count = slots.length afterwards.
C13_TemplateBroadcast ==
    [][(IsTemplate /\ accepted' # accepted) =>
          /\ \A i \in DOMAIN builder.arg_list :
                builder'.arg_list[i] =
                   IF i \in SlotsFor(builder, builder.idx)
                   THEN Value(Last(accepted'))
                   ELSE builder.arg_list[i]
          /\ DOMAIN builder'.arg_list = DOMAIN builder.arg_list
          /\ builder'.finalized_count =
                builder.finalized_count + Cardinality(SlotsFor(builder, builder.idx))
          /\ builder'.idx = builder.idx + 1
          /\ Last(ret') <=> (builder'.finalized_count = Len(builder'.arg_list))]_vars

\* One value has filled two slots, and the value before it filled none.
C13_Witness ==
    /\ IsTemplate /\ template = <<Elem_1, Elem_1>> /\ Len(accepted) = 2
    /\ accepted[1] # accepted[2]
    /\ builder.arg_list = <<Value(accepted[2]), Value(accepted[2])>>
    /\ ret = <<FALSE, TRUE>>

AllFilled(b) == \A i \in DOMAIN b.arg_list : b.arg_list[i].tag = "Value"

\* C14: in a Template builder filled_count is the number of slots holding a
\* value and the builder is finalized (and its last push_arg said so) exactly
\* when every slot holds one; filled_count never decreases and a filled slot
\* keeps its value.
C14_TemplateFillInvariant ==
    /\ [](IsTemplate =>
            /\ builder.finalized_count = CountValues(builder.arg_list)
            /\ Template_finalized(builder) <=> AllFilled(builder)
            /\ ret # << >> => (Last(ret) <=> AllFilled(builder)))
    /\ [][IsTemplate =>
            /\ builder'.finalized_count >= builder.finalized_count
            /\ \A i \in DOMAIN builder.arg_list :
                  builder.arg_list[i].tag = "Value"
                     => builder'.arg_list[i] = builder.arg_list[i]]_vars

\* A literal kept and two placeholders filled one after the other.
C14_Witness ==
    /\ IsTemplate /\ bimpl = "args" /\ template = <<initial, Elem_0, Elem_1>>
    /\ Len(accepted) = 2 /\ builder.finalized_count = 3 /\ AllFilled(builder)
    /\ builder.arg_list[1] = Value(initial)

PlaceHolders(t) == {p \in DOMAIN t : IsPlainPlaceHolder(t[p])}

\* The largest input index a template refers to.
MaxIndex(t) ==
    CHOOSE m \in {PlainIndex(t[p]) : p \in PlaceHolders(t)} :
        \A p \in PlaceHolders(t) : PlainIndex(t[p]) <= m

\* C20: a Template builder made of literals and placeholders {n}, at least one
\* of them a placeholder, with m the largest n, reports finalized on its
\* (m+1)-th push_arg and on no other.
C20_TokensPerTemplateInvocation ==
    (/\ IsTemplate
     /\ \A p \in DOMAIN template : NoBraces(template[p]) \/ IsPlainPlaceHolder(template[p])
     /\ PlaceHolders(template) # {})
        => \A k \in DOMAIN ret : ret[k] <=> (k = MaxIndex(template) + 1)

------------------------------------------------------------------------------
(* TokSpec: SplitMany::next and clean_arg, driven by the loop of main() *)

NUL == 0
TAB == 9
LF == 10
SPACE == 32

\* "  a \t b\0"
ExampleInput == <<32, 32, 97, 32, 9, 32, 98, 0>>

\* NUL, space, 'a', and the two bytes of U+00E9 (0xC3 0xA9).
InputBytes == {0, 32, 97, 195, 169}

Inputs == SeqsUpTo(InputBytes, MaxInputLen) \cup {ExampleInput}

\* -0 ; the default ; -d " \t" -0 ; -d "\u{e9}"
DelimSets == {{NUL}, {LF, TAB, SPACE}, {SPACE, TAB, NUL}, {195, 169}}

IsCont(b) == 128 <= b /\ b <= 191

\* str::from_utf8 succeeds: the bytes are well-formed UTF-8.
RECURSIVE Utf8Valid(_)
Utf8Valid(bs) ==
    IF bs = << >> THEN TRUE
    ELSE LET b == bs[1]
             n == Len(bs)
         IN  IF b <= 127 THEN Utf8Valid(Tail(bs))
             ELSE IF 194 <= b /\ b <= 223
                  THEN n >= 2 /\ IsCont(bs[2]) /\ Utf8Valid(SubSeq(bs, 3, n))
             ELSE IF 224 <= b /\ b <= 239
                  THEN /\ n >= 3 /\ IsCont(bs[2]) /\ IsCont(bs[3])
                       /\ (b = 224 => bs[2] >= 160)
                       /\ (b = 237 => bs[2] <= 159)
                       /\ Utf8Valid(SubSeq(bs, 4, n))
             ELSE IF 240 <= b /\ b <= 244
                  THEN /\ n >= 4 /\ IsCont(bs[2]) /\ IsCont(bs[3]) /\ IsCont(bs[4])
                       /\ (b = 240 => bs[2] >= 144)
                       /\ (b = 244 => bs[2] <= 143)
                       /\ Utf8Valid(SubSeq(bs, 5, n))
             ELSE FALSE

\* iter().position(|x| x is in S): 0-based, None as -1.
Position(s, S) ==
    IF \E i \in DOMAIN s : s[i] \in S THEN Min({i \in DOMAIN s : s[i] \in S}) - 1 ELSE -1

\* The bytes of arg that !delims.contains(x) accepts.
NotDelims(ds, arg) == Range(arg) \ ds

Reverse(s) == [i \in 1..Len(s) |-> s[Len(s) + 1 - i]]

clean_arg_NoTrailingTrim(ds, arg) ==
    LET start == Position(arg, NotDelims(ds, arg))
    IN  IF start >= 0
        THEN [some |-> TRUE, bytes |-> SubSeq(arg, start + 1, Len(arg))]
        ELSE [some |-> FALSE, bytes |-> << >>]

\* The byte slice clean_arg keeps, before it is decoded; some = FALSE is None.
clean_arg(ds, arg) ==
    LET start == Position(arg, NotDelims(ds, arg))
        end == Position(Reverse(SubSeq(arg, start + 1, Len(arg))), NotDelims(ds, arg))
    IN  IF start >= 0 /\ end >= 0
        THEN [some |-> TRUE, bytes |-> SubSeq(arg, start + 1, Len(arg) - end)]
        ELSE [some |-> FALSE, bytes |-> << >>]

TokInit ==
    /\ input \in Inputs
    /\ delims \in DelimSets
    /\ stream = input
    /\ next = << >>
    /\ handed = << >>
    /\ tpc = "iter"
    /\ BuilderIdle /\ PoolIdle

\* The body of main()'s for loop on one run: clean_arg, then pool.push_arg;
\* .expect panics when the kept bytes do not decode.
LoopBody(buf) ==
    LET arg == clean_arg(delims, buf)
    IN  IF ~arg.some THEN handed' = handed /\ tpc' = tpc
        ELSE IF Utf8Valid(arg.bytes) THEN handed' = Append(handed, arg.bytes) /\ tpc' = tpc
        ELSE handed' = handed /\ tpc' = "decode_failed"

\* next(): self.next holds a delimiter; the run up to and including the first
\* one is drained and returned.
TokYield ==
    /\ tpc = "iter"
    /\ Position(next, delims) >= 0
    /\ LET p == Position(next, delims)
       IN  /\ next' = SubSeq(next, p + 2, Len(next))
           /\ LoopBody(SubSeq(next, 1, p + 1))
    /\ UNCHANGED <<stream, input, delims, bvars, pvars>>

\* next(): no delimiter yet; fill_buf hands out n >= 1 more bytes.
TokFill(n) ==
    /\ tpc = "iter"
    /\ Position(next, delims) < 0
    /\ n >= 1 /\ n <= Len(stream)
    /\ next' = next \o SubSeq(stream, 1, n)
    /\ stream' = SubSeq(stream, n + 1, Len(stream))
    /\ UNCHANGED <<input, delims, handed, tpc, bvars, pvars>>

\* next(): no delimiter and fill_buf is empty (end of stream); what is left
\* is returned as the last run, and the call after that returns None.
TokEof ==
    /\ tpc = "iter"
    /\ Position(next, delims) < 0
    /\ stream = << >>
    /\ IF next = << >>
       THEN tpc' = "done" /\ UNCHANGED <<next, handed>>
       ELSE next' = << >> /\ LoopBody(next)
    /\ UNCHANGED <<stream, input, delims, bvars, pvars>>

\* next(): fill_buf fails; main()'s .expect panics.
TokReadErr ==
    /\ tpc = "iter"
    /\ Position(next, delims) < 0
    /\ tpc' = "read_failed"
    /\ UNCHANGED <<stream, input, delims, next, handed, bvars, pvars>>

TokNext ==
    \/ TokYield
    \/ \E n \in 1..(MaxInputLen + Len(ExampleInput)) : TokFill(n)
    \/ TokEof
    \/ TokReadErr

TokSpec == TokInit /\ [][TokNext]_vars

------------------------------------------------------------------------------
(* Claims about the tokenizer, checked under TokSpec *)

\* The maximal runs of non-delimiter bytes of s, in order.
RECURSIVE MaximalRuns(_, _)
MaximalRuns(s, ds) ==
    IF s = << >> THEN << >>
    ELSE IF s[1] \in ds THEN MaximalRuns(Tail(s), ds)
    ELSE LET stops == {i \in DOMAIN s : s[i] \in ds}
             n == IF stops = {} THEN Len(s) ELSE Min(stops) - 1
         IN  <<SubSeq(s, 1, n)>> \o MaximalRuns(SubSeq(s, n + 1, Len(s)), ds)

IsPrefix(s, t) == Len(s) <= Len(t) /\ s = SubSeq(t, 1, Len(s))

\* C7 as stated: whenever the input has been read to its end, the tokens handed
\* to the pool are exactly the maximal runs of non-delimiter bytes of the input.
C7_TokensAreMaximalRuns_AnyBytes ==
    (tpc \in {"done", "decode_failed"}) => handed = MaximalRuns(input, delims)

\* C7 amended: the tokens handed on are always the first maximal runs, in input
\* order, none empty and none holding a delimiter; the loop ends normally with
\* all of them; it stops early only at a run that is not UTF-8; and
\* "  a \t b\0" gives a, b.
C7_TokensAreMaximalRuns ==
    (tpc # "off") =>
        /\ IsPrefix(handed, MaximalRuns(input, delims))
        /\ \A k \in DOMAIN handed : handed[k] # << >> /\ Range(handed[k]) \cap delims = {}
        /\ tpc = "done" => handed = MaximalRuns(input, delims)
        /\ tpc = "decode_failed" =>
              /\ Len(handed) < Len(MaximalRuns(input, delims))
              /\ ~Utf8Valid(MaximalRuns(input, delims)[Len(handed) + 1])
        /\ (tpc = "done" /\ input = ExampleInput /\ delims = {SPACE, TAB, NUL})
              => handed = <<<<97>>, <<98>>>>

C7_Witness ==
    /\ tpc = "done" /\ input = ExampleInput /\ delims = {SPACE, TAB, NUL}
    /\ handed = <<<<97>>, <<98>>>>

------------------------------------------------------------------------------
(* PoolSpec: ProcPool driven by main(), the children running concurrently *)

tok_a == <<"a">>
tok_b == <<"b">>
tok_c == <<"c">>

\* The pool and the builders never look into a token, so the streams tried are
\* the first n tokens of a, b, c, a, b, c, ... for every n up to MaxTokens.
TokenStream(n) == [k \in 1..n |-> <<tok_a, tok_b, tok_c>>[((k - 1) % 3) + 1]]

TokenStreams == {TokenStream(n) : n \in 0..MaxTokens}

\* program[1..]: fixed arguments in append mode, the template with --template.
PoolTemplates == {<< >>, <<Elem_0>>, <<Elem_1>>, <<initial, Elem_0, Elem_1>>}

\* min_args is a field of the maker of src/args.rs only; the maker main()
\* builds has none, and the pool never reads it.  out_len is the number of
\* units the program run writes to its standard output; with Stdio::inherit()
\* the output does not pass through the pool and is left out.
Configs ==
    {c \in [max_parallelism : 1..MaxPar, pipe_stdout : BOOLEAN, is_template : BOOLEAN,
            initial_args : PoolTemplates \cup {<<initial>>},
            max_args : 0..MaxArgs, min_args : 0..MaxArgs, out_len : 0..MaxOut] :
        /\ IF c.is_template
           THEN c.initial_args \in PoolTemplates /\ c.max_args = 1 /\ c.min_args = 1
           ELSE c.initial_args \in {<< >>, <<initial>>} /\ c.min_args <= c.max_args
        /\ c.pipe_stdout \/ c.out_len = 0}

PoolInit ==
    /\ cfg \in Configs
    /\ tokens \in TokenStreams
    /\ pos = 0
    /\ proc_builder = Main_make(cfg)
    /\ procs = << >>
    /\ nspawned = 0
    /\ spawned = << >>
    /\ spawn_pos = << >>
    /\ stdout = << >>
    /\ pc = "read"
    /\ BuilderIdle /\ TokIdle

Retained_KeepErrors(ps) ==
    LET Kept(c) == c.st \in {"running", "error"}
    IN  SelectSeq(ps, Kept)

\* try_wait(): Ok(None) for a running child keeps it; Ok(Some(_)) and Err(_)
\* drop it.
Retained(ps) ==
    LET Running(c) == c.st = "running"
    IN  SelectSeq(ps, Running)

RECURSIVE Printed_Reversed(_)
Printed_Reversed(ps) ==
    IF ps = << >> THEN << >>
    ELSE Printed_Reversed(Tail(ps))
            \o (IF cfg.pipe_stdout /\ Head(ps).st = "exited" /\ Head(ps).out
                THEN <<Head(ps).id>> ELSE << >>)

\* What one retain_mut pass prints: the captured output of each exited child
\* that is not empty, in the order of procs.  out is bytes_read > 0.
RECURSIVE Printed(_)
Printed(ps) ==
    IF ps = << >> THEN << >>
    ELSE (IF cfg.pipe_stdout /\ Head(ps).st = "exited" /\ Head(ps).out
          THEN <<Head(ps).id>> ELSE << >>) \o Printed(Tail(ps))

wait_for_room_len_Full == cfg.max_parallelism

wait_for_room_len == cfg.max_parallelism - 1

wait_all_len_One == 0 + 1

wait_all_len == 0

\* The child Command::spawn returns: running, with out_len units left to write
\* and, when stdout is piped, an empty pipe of PipeCap units to the pool.
\* rank is the place of its exit among the exited children still tracked.
NewChild ==
    [id |-> nspawned + 1, st |-> "running", out |-> FALSE,
     left |-> cfg.out_len, buf |-> 0, rank |-> 0]

\* Command::spawn succeeded: the child is tracked and the builder replaced.
Spawn(kept) ==
    /\ procs' = Append(kept, NewChild)
    /\ nspawned' = nspawned + 1
    /\ spawned' = Append(spawned, Main_arg_list(proc_builder))
    /\ spawn_pos' = Append(spawn_pos, pos)
    /\ proc_builder' = Main_make(cfg)
    /\ pc' = "read"

\* Command::spawn failed: .expect panics.
SpawnFails(kept) ==
    /\ procs' = kept
    /\ pc' = "panicked"
    /\ UNCHANGED <<nspawned, spawned, spawn_pos, proc_builder>>

push_arg_Polling ==
    /\ pc = "read"
    /\ pos < Len(tokens)
    /\ IF Main_finalized(proc_builder)
       THEN /\ pc' = "panicked"
            /\ UNCHANGED <<pos, proc_builder, procs, stdout>>
       ELSE LET r == Main_push_arg(proc_builder, tokens[pos + 1])
            IN  /\ proc_builder' = r.self
                /\ pos' = pos + 1
                /\ pc' = IF r.ret THEN "wait_for_room" ELSE "read"
                /\ procs' = Retained(procs)
                /\ stdout' = stdout \o Printed(procs)
    /\ UNCHANGED <<cfg, tokens, nspawned, spawned, spawn_pos, bvars, tvars>>

\* push_arg up to its call of wait_for_room, for the next token of the loop.
push_arg ==
    /\ pc = "read"
    /\ pos < Len(tokens)
    /\ IF Main_finalized(proc_builder)
       THEN /\ pc' = "panicked"
            /\ UNCHANGED <<pos, proc_builder>>
       ELSE LET r == Main_push_arg(proc_builder, tokens[pos + 1])
            IN  /\ proc_builder' = r.self
                /\ pos' = pos + 1
                /\ pc' = IF r.ret THEN "wait_for_room" ELSE "read"
    /\ UNCHANGED <<cfg, tokens, procs, nspawned, spawned, spawn_pos, stdout, bvars, tvars>>

\* One pass of the loop of wait_until_len(max_parallelism - 1) and, when it
\* breaks, the rest of push_arg: the spawn and the new builder.
wait_for_room ==
    /\ pc = "wait_for_room"
    /\ stdout' = stdout \o Printed(procs)
    /\ IF Len(Retained(procs)) <= wait_for_room_len
       THEN Spawn(Retained(procs)) \/ SpawnFails(Retained(procs))
       ELSE /\ procs' = Retained(procs)
            /\ UNCHANGED <<nspawned, spawned, spawn_pos, proc_builder, pc>>
    /\ UNCHANGED <<cfg, tokens, pos, bvars, tvars>>

wait_all_Flush ==
    /\ pc = "read"
    /\ pos = Len(tokens)
    /\ IF proc_builder.kind = "Append" /\ proc_builder.args # << >>
       THEN /\ procs' = Append(procs, NewChild)
            /\ nspawned' = nspawned + 1
            /\ spawned' = Append(spawned, Main_arg_list(proc_builder))
            /\ spawn_pos' = Append(spawn_pos, pos)
            /\ proc_builder' = Main_make(cfg)
            /\ pc' = "wait_all"
       ELSE /\ pc' = "wait_all"
            /\ UNCHANGED <<procs, nspawned, spawned, spawn_pos, proc_builder>>
    /\ UNCHANGED <<cfg, tokens, pos, stdout, bvars, tvars>>

wait_all_FlushAny ==
    /\ pc = "read"
    /\ pos = Len(tokens)
    /\ IF proc_builder.kind = "Template" /\ proc_builder.idx > 0
       THEN /\ procs' = Append(procs, NewChild)
            /\ nspawned' = nspawned + 1
            /\ spawned' = Append(spawned, Main_arg_list(proc_builder))
            /\ spawn_pos' = Append(spawn_pos, pos)
            /\ proc_builder' = Main_make(cfg)
            /\ pc' = "wait_all"
       ELSE /\ pc' = "wait_all"
            /\ UNCHANGED <<procs, nspawned, spawned, spawn_pos, proc_builder>>
    /\ UNCHANGED <<cfg, tokens, pos, stdout, bvars, tvars>>

\* The for loop of main() is over and wait_all is entered.
wait_all ==
    /\ pc = "read"
    /\ pos = Len(tokens)
    /\ pc' = "wait_all"
    /\ UNCHANGED <<cfg, tokens, pos, proc_builder, procs, nspawned, spawned, spawn_pos,
                   stdout, bvars, tvars>>

\* One pass of the loop of wait_until_len(0); main() returns when it breaks.
wait_all_pass ==
    /\ pc = "wait_all"
    /\ stdout' = stdout \o Printed(procs)
    /\ procs' = Retained(procs)
    /\ pc' = IF Len(Retained(procs)) <= wait_all_len THEN "done" ELSE "wait_all"
    /\ UNCHANGED <<cfg, tokens, pos, proc_builder, nspawned, spawned, spawn_pos,
                   bvars, tvars>>

Tracking == pc \in {"read", "wait_for_room", "wait_all"}

\* Child i writes to its piped stdout as much as the pipe still takes.  The
\* pool reads the pipe only after try_wait has reported the exit, so nothing
\* empties it while the child runs.
ChildWrite(i) ==
    /\ Tracking
    /\ i \in DOMAIN procs
    /\ procs[i].st = "running"
    /\ cfg.pipe_stdout
    /\ procs[i].left > 0
    /\ procs[i].buf < PipeCap
    /\ LET w == Min({procs[i].left, PipeCap - procs[i].buf})
       IN  procs' = [procs EXCEPT ![i].left = @ - w, ![i].buf = @ + w]
    /\ UNCHANGED <<cfg, tokens, pos, proc_builder, nspawned, spawned, spawn_pos, stdout,
                   pc, bvars, tvars>>

Exited(ps) == {j \in DOMAIN ps : ps[j].st = "exited"}

\* Child i exits, having written all its output; out says whether
\* read_to_string on its pipe will give any bytes.
ChildExit(i, out) ==
    /\ Tracking
    /\ i \in DOMAIN procs
    /\ procs[i].st = "running"
    /\ procs[i].left = 0
    /\ out => procs[i].buf > 0
    /\ procs' = [procs EXCEPT ![i].st = "exited", ![i].out = out,
                              ![i].rank = Cardinality(Exited(procs)) + 1]
    /\ UNCHANGED <<cfg, tokens, pos, proc_builder, nspawned, spawned, spawn_pos, stdout,
                   pc, bvars, tvars>>

\* try_wait() on child i will return Err.
ChildPollError(i) ==
    /\ Tracking
    /\ i \in DOMAIN procs
    /\ procs[i].st = "running"
    /\ procs' = [procs EXCEPT ![i].st = "error"]
    /\ UNCHANGED <<cfg, tokens, pos, proc_builder, nspawned, spawned, spawn_pos, stdout,
                   pc, bvars, tvars>>

\* Child i goes on: it writes while it has output left and then exits.
ChildRuns(i) == ChildWrite(i) \/ \E out \in BOOLEAN : ChildExit(i, out)

MainStep ==
    \/ push_arg
    \/ wait_for_room
    \/ wait_all
    \/ wait_all_pass

PoolNext ==
    \/ MainStep
    \/ \E i \in 1..MaxPar, out \in BOOLEAN : ChildExit(i, out)
    \/ \E i \in 1..MaxPar : ChildWrite(i)
    \/ \E i \in 1..MaxPar : ChildPollError(i)

PoolSpec == PoolInit /\ [][PoolNext]_vars

\* The runs in which every child can exit: what a child writes to a piped
\* stdout fits the pipe.
PoolFairInit ==
    /\ PoolInit
    /\ cfg.out_len <= PipeCap

\* The control thread keeps running, and every running child writes its output
\* and exits.
PoolFairSpec ==
    /\ PoolFairInit /\ [][PoolNext]_vars
    /\ WF_vars(MainStep)
    /\ \A i \in 1..MaxPar : WF_vars(ChildRuns(i))

------------------------------------------------------------------------------
(* Claims about the pool, checked under PoolSpec and PoolFairSpec *)

PoolOn == pc # "off"
AppendMode == PoolOn /\ ~cfg.is_template

\* C1: the children the pool tracks (spawned and not yet reaped) never number
\* more than max_parallelism.
C1_PoolCapacity == PoolOn => Len(procs) <= cfg.max_parallelism

C1_Witness ==
    /\ pc = "wait_for_room" /\ cfg.max_parallelism = 2 /\ Len(procs) = 2
    /\ \A i \in DOMAIN procs : procs[i].st = "running"

\* The tokens left over when the stream ends, in append mode with max_args >= 1.
Leftover == Len(tokens) % cfg.max_args

\* C2: when the stream ends with r pending tokens, min_args <= r < max_args,
\* wait_all spawns one more invocation with initial_args followed by those r
\* tokens before it drains the pool, so that is the last spawn once main() is
\* done; with max_args = 2, min_args = 1 and tokens a, b, c the spawns are
\* [a, b] and then [c].  (Stated for r >= 1.)
C2_PartialFlushAtEnd ==
    (pc = "done" /\ AppendMode /\ cfg.max_args >= 1) =>
        /\ (Leftover >= 1 /\ cfg.min_args <= Leftover) =>
              /\ spawned # << >>
              /\ spawned[Len(spawned)] =
                    cfg.initial_args
                    \o SubSeq(tokens, Len(tokens) - Leftover + 1, Len(tokens))
        /\ (cfg.max_args = 2 /\ cfg.min_args = 1 /\ tokens = <<tok_a, tok_b, tok_c>>) =>
              spawned = <<cfg.initial_args \o <<tok_a, tok_b>>,
                          cfg.initial_args \o <<tok_c>>>>

\* C3: once the stream has ended with fewer than min_args pending tokens in the
\* Append builder, nothing wait_all does spawns: the spawns stay as they were.
C3_UnderMinDiscard ==
    [][(/\ AppendMode
        /\ pos = Len(tokens)
        /\ pc \in {"read", "wait_all"}
        /\ Len(proc_builder.args) < cfg.min_args)
          => (spawned' = spawned /\ nspawned' = nspawned)]_vars

C3_Witness ==
    /\ pc = "done" /\ AppendMode /\ cfg.max_args = 3 /\ cfg.min_args = 2
    /\ Len(tokens) = 1 /\ proc_builder.args = tokens /\ spawned = << >>

\* C4: in append mode with max_args = m >= 1 the k-th spawn carries
\* initial_args and then tokens (k-1)*m+1 .. k*m, in arrival order; the builder
\* in use holds exactly the tokens consumed since the last spawn, so the one
\* made after a spawn starts empty.
C4_FifoAdmission ==
    (AppendMode /\ cfg.max_args >= 1) =>
        /\ \A k \in DOMAIN spawned :
              spawned[k] =
                 cfg.initial_args
                 \o SubSeq(tokens, (k - 1) * cfg.max_args + 1, k * cfg.max_args)
        /\ \A k \in DOMAIN spawned : spawn_pos[k] = k * cfg.max_args
        /\ proc_builder.args = SubSeq(tokens, Len(spawned) * cfg.max_args + 1, pos)

C4_Witness ==
    /\ AppendMode /\ cfg.max_args = 2 /\ Len(spawned) = 2 /\ pc = "read"
    /\ tokens[1] # tokens[2] /\ cfg.initial_args # << >>

\* C8: once wait_all is entered it returns, every child exiting in the end,
\* and when it has returned the pool tracks no child.
C8_FullDrain ==
    /\ [](pc = "done" => procs = << >>)
    /\ (pc = "wait_all") ~> (pc = "done")

C8_Witness ==
    /\ pc = "done" /\ nspawned >= 2 /\ procs = << >>
    /\ \E k \in DOMAIN spawn_pos : spawn_pos[k] = Len(tokens)

\* C11: whenever Pool.push_arg is about to be entered (the loop of main() has
\* a token to hand over), the active builder is not finalized, so the assert!
\* at the top of push_arg holds, whatever the configuration.
C11_EntryAssertionHolds ==
    (pc = "read" /\ pos < Len(tokens)) => ~Main_finalized(proc_builder)

TemplateMode == PoolOn /\ cfg.is_template

\* C15: in template mode nothing is spawned once the stream has ended with a
\* builder that still has an unfilled slot, and every argument list a process
\* was spawned with has one value for every slot of the template.
C15_UnfinishedTemplateDiscard ==
    /\ [](TemplateMode =>
            \A k \in DOMAIN spawned : Len(spawned[k]) = Len(cfg.initial_args))
    /\ [][(/\ TemplateMode
           /\ pos = Len(tokens)
           /\ pc \in {"read", "wait_all"}
           /\ ~AllFilled(proc_builder))
             => (spawned' = spawned /\ nspawned' = nspawned)]_vars

\* One invocation was spawned and the stream ended with the next one half
\* filled.
C15_Witness ==
    /\ pc = "done" /\ TemplateMode /\ cfg.initial_args = <<initial, Elem_0, Elem_1>>
    /\ Len(tokens) = 3 /\ Len(spawned) = 1
    /\ proc_builder.idx = 1 /\ proc_builder.finalized_count = 2
    /\ ~AllFilled(proc_builder)

\* C16: a step of Pool.push_arg in which the builder takes the token without
\* reporting completion leaves the tracked processes, the output and the spawns
\* as they were and does not enter a wait loop: only the builder (and the
\* position in the stream) changes.
C16_NonFinalizingPushFrame ==
    [][(pc = "read" /\ pos' = pos + 1 /\ ~Main_finalized(proc_builder'))
          => /\ pc' = "read"
             /\ UNCHANGED <<procs, stdout, spawned, nspawned, spawn_pos, cfg, tokens>>
             /\ proc_builder' = Main_push_arg(proc_builder, tokens[pos + 1]).self]_vars

\* A token was taken by an Append builder that wants more, while a child that
\* has exited with captured output is still tracked and unprinted.
C16_Witness ==
    /\ pc = "read" /\ AppendMode /\ cfg.pipe_stdout /\ cfg.max_args = 2
    /\ Len(proc_builder.args) = 1 /\ pos = 3
    /\ Len(procs) = 1 /\ procs[1].st = "exited" /\ procs[1].out
    /\ stdout = << >>

TrackedIds(ps) == {ps[j].id : j \in DOMAIN ps}

RunningIn(ps) == {j \in DOMAIN ps : ps[j].st = "running"}

\* C17: in a scan of wait_until_len a child whose poll returns an error is
\* dropped from procs and nothing of it is printed, now or later; every running
\* child stays tracked as it was; the exited children of the same scan are
\* reaped and their captured output printed wherever they stand in procs; and
\* the loop ends on the number of children left, whether they went by exit or
\* by error.
C17_PollErrorRecovery ==
    [][(wait_for_room \/ wait_all_pass) =>
          /\ \A i \in DOMAIN procs :
                /\ procs[i].st = "running" =>
                      \E j \in DOMAIN procs' : procs'[j] = procs[i]
                /\ procs[i].st = "error" =>
                      /\ procs[i].id \notin TrackedIds(procs')
                      /\ procs[i].id \notin Range(stdout')
                /\ procs[i].st = "exited" =>
                      /\ procs[i].id \notin TrackedIds(procs')
                      /\ (cfg.pipe_stdout /\ procs[i].out) => procs[i].id \in Range(stdout')
          /\ pc = "wait_for_room" =>
                (Cardinality(RunningIn(procs)) <= cfg.max_parallelism - 1
                    <=> pc' # "wait_for_room")
          /\ pc = "wait_all" =>
                (Cardinality(RunningIn(procs)) = 0 <=> pc' = "done")]_vars

\* With max_parallelism = 1 and an output that does not fit the pipe the first
\* child cannot exit: it left the pool by a poll error, printed nothing, and
\* its place went to the second child.
C17_Witness ==
    /\ PoolOn /\ cfg.pipe_stdout /\ cfg.out_len > PipeCap /\ cfg.max_parallelism = 1
    /\ nspawned = 2 /\ Len(procs) = 1 /\ procs[1].id = 2 /\ procs[1].st = "running"
    /\ stdout = << >>

\* The blocks a step adds to the output.
NewBlocks == SubSeq(stdout', Len(stdout) + 1, Len(stdout'))

ChildOf(id) == procs[CHOOSE j \in DOMAIN procs : procs[j].id = id]

\* What holds of every block whatever its place: it is printed whole, once,
\* after what was printed before, in the scan that reaps its child after the
\* child's exit.
BlocksAtReap ==
    /\ IsPrefix(stdout, stdout')
    /\ \A a \in DOMAIN NewBlocks :
          /\ NewBlocks[a] \in TrackedIds(procs)
          /\ ChildOf(NewBlocks[a]).st = "exited"
          /\ NewBlocks[a] \notin TrackedIds(procs')
          /\ NewBlocks[a] \notin Range(stdout)
          /\ \A b \in DOMAIN NewBlocks : NewBlocks[a] = NewBlocks[b] => a = b

\* C18 as stated: with capture, the blocks are printed at reap and in the order
\* in which the children exited.
C18_CapturedOutputInExitOrder ==
    [][(cfg.pipe_stdout /\ stdout' # stdout) =>
          /\ BlocksAtReap
          /\ \A a, b \in DOMAIN NewBlocks :
                a < b => ChildOf(NewBlocks[a]).rank < ChildOf(NewBlocks[b]).rank]_vars

\* C18, amended: with capture, the blocks are printed at reap; the children
\* reaped by one scan are printed in the order of procs, which is the order in
\* which they were spawned, whatever the order in which they exited.
C18_CapturedOutputInScanOrder ==
    [][(cfg.pipe_stdout /\ stdout' # stdout) =>
          /\ BlocksAtReap
          /\ \A a, b \in DOMAIN NewBlocks : a < b => NewBlocks[a] < NewBlocks[b]]_vars

\* Two tracked children with captured output, the second spawned having exited
\* first, both waiting for the scan of wait_all.
C18_Witness ==
    /\ pc = "wait_all" /\ cfg.pipe_stdout /\ Len(procs) = 2
    /\ procs[1].id < procs[2].id
    /\ procs[1].st = "exited" /\ procs[1].out /\ procs[1].rank = 2
    /\ procs[2].st = "exited" /\ procs[2].out /\ procs[2].rank = 1


\* Child i is blocked: it has output left to write and its pipe is full.
BlockedWriter(i) ==
    /\ i \in DOMAIN procs
    /\ procs[i].st = "running"
    /\ procs[i].left > 0
    /\ procs[i].buf = PipeCap

\* C19: with capture, no state is reachable in which the pool sits in one of
\* its wait loops, polling for exits, while a child it tracks is blocked
\* writing output that the pool will read only after the exit.
C19_NoBlockedWriter ==
    (PoolOn /\ cfg.pipe_stdout /\ pc \in {"wait_for_room", "wait_all"})
        => ~ \E i \in 1..MaxPar : BlockedWriter(i)

==============================================================================
